---- MODULE Spec2Model ----
(***************************************************************************)
(* Model of the clip-stitcher pipeline: the URL resolver                   *)
(* (utils/youtube.py), the segment materializer (utils/video_processor.py),*)
(* the assembly engine (utils/video_stitcher.py) and the orchestrators     *)
(* (utils/legacy_processor.py, utils/textual_ui.py).                       *)
(*                                                                         *)
(* Strings are sequences of tokens, each token a literal piece of a URL.   *)
(* External processes (yt-dlp, ffmpeg, ffprobe) and file-system calls are  *)
(* the environment: each call draws its outcome from the outcomes the      *)
(* Python call can have ("ok", a non-zero exit raising CalledProcessError, *)
(* or an OSError raised because the call itself could not be carried out). *)
(***************************************************************************)
EXTENDS Integers, Sequences, FiniteSets, TLC

\* ------------------------------------------------------------------ bounds

\* Longest reference list read from the input file.
MaxRefs == 3

\* Longest segment list handed directly to the assembly engine (SpecAssembly).
MaxClips == 3

\* Largest clip / transition duration (seconds) a config.yaml may set
\* in SpecAssembly.
MaxDuration == 2

\* Longest line of the input file, in tokens, handed to the resolver alone
\* (SpecResolve).
MaxUrlLen == 3

\* Longest tail, in tokens, following the video id of a line of a known URL
\* shape handed to the resolver alone (SpecResolve).
MaxQueryLen == 4

\* Largest number of times the Start button is pressed on one application
\* instance (SpecTextual).
MaxStarts == 2

\* Longest reference list the Textual application is constructed with
\* (SpecTextual).
MaxUiRefs == 2

\* Most messages waiting in message_queue at once: the UI thread's poll,
\* every 0.1 s, empties the queue before more have accumulated (SpecTextual).
MaxQueue == 9

\* ------------------------------------------------------- program constants

\* Config.__init__ defaults.
DefaultClipDuration == 30

DefaultTransitionDuration == 1

\* ---------------------------------------------------------------- resolver

\* [a-zA-Z0-9_-] restricted to the characters the model's URLs use.
IdChars == {"a", "b", "0", "9", "-"}

DigitValue == [c \in {"0", "9"} |-> IF c = "0" THEN 0 ELSE 9]

\* The literal heads of the three regular expressions, in list order.
patterns ==
    << {"youtube.com/watch?v=", "youtu.be/"},
       {"youtube.com/embed/"},
       {"youtube.com/v/"} >>

\* The value None.
None == <<>>

\* Positions at which a literal head of `lits` is followed by an id character.
MatchStarts(url, lits) ==
    {k \in 1..(Len(url) - 1) : url[k] \in lits /\ url[k + 1] \in IdChars}

\* Greedy ([...]+): the longest run of id characters starting at position k.
IdRun(url, k) ==
    LET e == CHOOSE e \in k..Len(url) :
                 /\ \A j \in k..e : url[j] \in IdChars
                 /\ (e = Len(url) \/ url[e + 1] \notin IdChars)
    IN SubSeq(url, k, e)

Min(S) == CHOOSE x \in S : \A y \in S : x <= y

\* re.search(pattern, url).group(1), or None.
re_search(url, lits) ==
    IF MatchStarts(url, lits) = {} THEN None
    ELSE IdRun(url, Min(MatchStarts(url, lits)) + 1)

\* The first pattern, in list order, that matches.
FirstMatch(url) ==
    IF re_search(url, patterns[1]) # None THEN re_search(url, patterns[1])
    ELSE IF re_search(url, patterns[2]) # None THEN re_search(url, patterns[2])
    ELSE re_search(url, patterns[3])

\* The watch-page head holds a "?" and the key "v=".
ExpandToken(tok) ==
    IF tok = "youtube.com/watch?v=" THEN <<"youtube.com/watch", "?", "v=">>
    ELSE <<tok>>

RECURSIVE Expand(_)
Expand(url) ==
    IF url = <<>> THEN <<>> ELSE ExpandToken(Head(url)) \o Expand(Tail(url))

\* Index of the first occurrence of tok in s, or Len(s) + 1.
IndexOf(s, tok) ==
    IF \E k \in 1..Len(s) : s[k] = tok
    THEN Min({k \in 1..Len(s) : s[k] = tok})
    ELSE Len(s) + 1

\* urlparse(url).query: what follows the first "?" of the part before "#".
urlparse_query(url) ==
    LET x == Expand(url)
        beforeFragment == SubSeq(x, 1, IndexOf(x, "#") - 1)
    IN SubSeq(beforeFragment, IndexOf(beforeFragment, "?") + 1, Len(beforeFragment))

\* The query split at "&".
RECURSIVE SplitAmp(_)
SplitAmp(q) ==
    IF q = <<>> THEN <<>>
    ELSE LET k == IndexOf(q, "&")
         IN <<SubSeq(q, 1, k - 1)>> \o
            (IF k >= Len(q) THEN <<>> ELSE SplitAmp(SubSeq(q, k + 1, Len(q))))

\* parse_qs(query)['t'][0]: the value of the first name=value pair whose name
\* is t and whose value is not blank (blank values are dropped); None when
\* 't' is not in params.
parse_qs_t(q) ==
    LET pairs == SplitAmp(q)
        hits == {k \in 1..Len(pairs) :
                    Len(pairs[k]) >= 2 /\ pairs[k][1] = "t="}
    IN IF hits = {} THEN None ELSE Tail(pairs[Min(hits)])

\* Whether int(v) accepts v: an optional sign, then digits.
IsInt(v) ==
    LET d == IF v # <<>> /\ Head(v) = "-" THEN Tail(v) ELSE v
    IN d # <<>> /\ \A k \in 1..Len(d) : d[k] \in DOMAIN DigitValue

RECURSIVE DigitsValue(_)
DigitsValue(d) ==
    IF d = <<>> THEN 0
    ELSE 10 * DigitsValue(SubSeq(d, 1, Len(d) - 1)) + DigitValue[d[Len(d)]]

\* int(v) for a v that IsInt accepts.
int(v) == IF Head(v) = "-" THEN 0 - DigitsValue(Tail(v)) ELSE DigitsValue(v)

\* A resolver that hands back the pair with whatever the loop left in video_id.
NoVideoId_ReturnNone(url) ==
    [raised |-> "none", video_id |-> None, timestamp |-> 0]

\* if not video_id: raise ValueError(f"Could not extract video ID from URL: {url}")
NoVideoId(url) == [raised |-> "ValueError", args |-> url]

\* A resolver that rejects a reference without a t parameter.
WithoutOffset_Reject(video_id) == [raised |-> "ValueError", args |-> video_id]

\* timestamp = 0, returned unchanged when no t parameter is found.
WithoutOffset(video_id) ==
    [raised |-> "none", video_id |-> video_id, timestamp |-> 0]

\* A resolver that falls back to offset 0 when the value of t is no integer.
InvalidLiteral_DefaultZero(video_id, t) ==
    [raised |-> "none", video_id |-> video_id, timestamp |-> 0]

\* int(params['t'][0]) raises ValueError (invalid literal) and nothing in
\* parse_youtube_url catches it.
InvalidLiteral(video_id, t) == [raised |-> "ValueError", args |-> t]

\* parse_youtube_url(url): the pair returned, or the ValueError raised (by
\* the function itself with the URL, or by int() with the value of t).
parse_youtube_url(url) ==
    LET video_id == FirstMatch(url)
        t == IF \E k \in 1..Len(url) : url[k] = "t="
             THEN parse_qs_t(urlparse_query(url)) ELSE None
    IN IF video_id = None
       THEN NoVideoId(url)
       ELSE IF t = None
       THEN WithoutOffset(video_id)
       ELSE IF ~IsInt(t)
       THEN InvalidLiteral(video_id, t)
       ELSE [raised |-> "none", video_id |-> video_id, timestamp |-> int(t)]

\* ------------------------------------------------- resolver of stitch.py

\* A pattern list whose first expression knows no short link.
stitch_patterns_NoShortLink ==
    << {"youtube.com/watch?v="},
       {"youtube.com/embed/"},
       {"youtube.com/v/"} >>

\* The literal heads of the three regular expressions of stitch.py, in list
\* order.
stitch_patterns ==
    << {"youtube.com/watch?v=", "youtu.be/"},
       {"youtube.com/embed/"},
       {"youtube.com/v/"} >>

\* for pattern in patterns: match = re.search(pattern, url); if match:
\* video_id = match.group(1); break
stitch_FirstMatch(url) ==
    LET hits == {k \in 1..Len(stitch_patterns) :
                    re_search(url, stitch_patterns[k]) # None}
    IN IF hits = {} THEN None ELSE re_search(url, stitch_patterns[Min(hits)])

\* parse_youtube_url(url) of stitch.py: the pair returned, or the ValueError
\* raised by the function itself (with the URL) or by int() (with the value
\* of t).
stitch_parse_youtube_url(url) ==
    LET video_id == stitch_FirstMatch(url)
        has_t == \E k \in 1..Len(url) : url[k] = "t="
        query == urlparse_query(url)
        t == IF has_t /\ query # <<>> THEN parse_qs_t(query) ELSE None
    IN IF video_id = None
       THEN [raised |-> "ValueError", args |-> url]
       ELSE IF t = None
       THEN [raised |-> "none", video_id |-> video_id, timestamp |-> 0]
       ELSE IF IsInt(t)
       THEN [raised |-> "none", video_id |-> video_id, timestamp |-> int(t)]
       ELSE [raised |-> "ValueError", args |-> t]

\* Every token a line of the input file is made of.
Tokens ==
    UNION {patterns[k] : k \in 1..3} \cup IdChars \cup {"https://", "?", "&", "#", "t="}

\* The tokens that follow the video id in a URL.
QueryTokens == {"?", "&", "#", "t=", "9", "-", "a"}

\* The lines an input file may hold: a watch-page URL with an offset, a
\* short link without one, and a line that matches no URL shape.
RefPool ==
    { <<"https://", "youtube.com/watch?v=", "a", "&", "t=", "9">>,
      <<"https://", "youtu.be/", "b">>,
      <<"https://", "a">> }

\* ------------------------------------------------------------------- state

VARIABLES
    variant,             \* "legacy": process_with_legacy_ui; "textual": process_videos;
                         \* "main": main() of stitch.py
    urls,                \* the reference list read from the input file
    use_transitions,     \* config.use_transitions
    clip_duration,       \* config.clip_duration
    transition_duration, \* config.transition_duration
    pc,                  \* position of the run
    i,                   \* the loop counter of enumerate(urls, 1); 0 before the loop
    clip_paths,          \* the segment list collected by the loop
    temp_dir,            \* "none" | "exists" | "removed"
    files,               \* the files in temp_dir
    exc,                 \* the exception propagating out of the run, or "none"
    video_id,            \* locals of the loop body / process_video_clip
    start_time,
    full_video_path,
    overlay,             \* how process_video_with_overlay ended for this clip
    ret,                 \* return value of process_video_clip: "none" | "True" | "False"
    plain_outcome,       \* what the undecorated (software) encode of this clip's
                         \* window does, fixed when the first encode is run
    stitch_ret,          \* return value of stitch_videos: "none" | "True" | "False"
    attempted,           \* the indices the loop body was entered with, in order
    materialized,        \* the indices for which process_video_clip returned True
    decided,             \* the assembly decision (if clip_paths:) was reached
    stitch_calls,        \* the arguments of every stitch_videos call
    graph_calls,         \* every filter-graph invocation: [clips, fade_out_st,
                         \* inputs, filter_complex]
    graph_outcome,       \* outcome of the last filter-graph invocation
    copy_outcome,        \* outcome of the single-clip stream copy
    copy_calls,          \* the stream-copy commands run for a single clip
    simple_calls,        \* the clip lists plain concatenation was run on
    simple_outcome,      \* outcome of the last plain concatenation
    list_file,           \* the lines of video_list.txt as last written
    rmtree_calls,        \* number of shutil.rmtree(temp_dir) calls
    font_missing,        \* some find_font_file() call of this run returned None
    steps,               \* the external steps of this clip so far: <<name, outcome>>
    normalizations,      \* the encode settings of the segments in clip_paths, in order
    reported_clips,      \* the clip count of the final success summary; 0: none printed
    successful_clips,    \* the local successful_clips of process_with_legacy_ui and
                         \* of main(); process_videos has no such local
    log,                 \* the run-level messages printed / queued
    raw,                 \* the line parse_youtube_url is called with (SpecResolve)
    resolved,            \* what that call returned or raised, once it has
    threads,             \* the processing threads started by ClipStitcherApp, each
                         \* with the position and locals of its process_videos call
    message_queue,       \* self.message_queue: the messages put and not yet got
    app,                 \* the attributes of the ClipStitcherApp instance
    widgets              \* what the widgets of the application show

cfgVars == <<variant, urls, use_transitions, clip_duration, transition_duration>>

orchVars == <<i, clip_paths, attempted, decided, stitch_calls>>

resolverVars == <<raw, resolved>>

uiVars == <<threads, message_queue, app, widgets>>

\* What the run records about its materializer calls.
histVars == <<font_missing, normalizations, reported_clips, successful_clips>>

dirVars == <<temp_dir, rmtree_calls>>

clipVars == <<video_id, start_time, full_video_path, overlay, ret, plain_outcome,
              materialized, steps>>

engineVars == <<stitch_ret, graph_calls, graph_outcome, copy_outcome, copy_calls,
                simple_calls, simple_outcome, list_file>>

vars == <<cfgVars, resolverVars, uiVars, orchVars, histVars, dirVars, clipVars,
          engineVars, pc, files, exc, log>>

\* subprocess.run(cmd, check=True): exit status 0, a non-zero exit status
\* (CalledProcessError), or the process could not be started (OSError).
RunOutcomes == {"ok", "CalledProcessError", "OSError"}

\* A file-system call (shutil.copy2, os.remove, shutil.rmtree, mkdtemp).
FsOutcomes == {"ok", "OSError"}

\* f"clip_{i:03d}_{video_id}.mp4" in temp_dir
ClipPath(n, vid) == <<"clip", n, vid>>

\* f"{video_id}_full.<ext>" in temp_dir, the file yt-dlp writes
OriginPath(vid) == <<"full", vid>>

\* "video_list.txt" in temp_dir
ListFilePath == <<"video_list.txt">>

\* the font copied into temp_dir
TempFontPath == <<"font">>

OneTo(n) == [k \in 1..n |-> k]

\* All sequences over S of length 1..n.
SeqsUpTo(S, n) == UNION {[1..k -> S] : k \in 1..n}

\* The processing threads an application instance may start.
Threads == 1..MaxStarts

\* A thread that start_processing has not created yet.
NotStarted ==
    [pc |-> "unstarted", i |-> 0, clips |-> 0, temp_dir |-> FALSE,
     raised |-> FALSE, completes |-> 0, stray |-> FALSE, cleaned |-> FALSE]

\* ClipStitcherApp.__init__(config, urls)
App__init__(u) ==
    [current_clip |-> 0, total_clips |-> Len(u), successful_clips |-> 0,
     processing_complete |-> FALSE]

\* compose(): the widgets as first shown.
compose ==
    [start_btn |-> [disabled |-> FALSE, label |-> "Start Processing"],
     successful_clips |-> 0, failed_clips |-> 0,
     current_label |-> <<"Initializing...">>, current_progress |-> 0,
     overall_progress |-> 0,
     final_label |-> <<"Waiting...">>, final_progress |-> 0]

\* No Textual application in the picture: nothing started, nothing queued.
NoApp ==
    /\ threads = [t \in Threads |-> NotStarted]
    /\ message_queue = <<>>
    /\ app = App__init__(urls)
    /\ widgets = compose

\* The state when the run is started: the input file has been read
\* (read_input_file returns None for an empty list, and the run ends), the
\* configuration holds Config.__init__'s defaults, use_transitions as
\* config.yaml sets it.
Init ==
    /\ variant \in {"legacy", "textual", "main"}
    /\ urls \in SeqsUpTo(RefPool, MaxRefs)
    /\ use_transitions \in (IF variant = "main" THEN {FALSE} ELSE BOOLEAN)
    /\ clip_duration = DefaultClipDuration
    /\ transition_duration = DefaultTransitionDuration
    /\ pc = "deps"
    /\ i = 0
    /\ clip_paths = <<>>
    /\ temp_dir = "none"
    /\ files = {}
    /\ exc = "none"
    /\ video_id = None
    /\ start_time = 0
    /\ full_video_path = None
    /\ overlay = "none"
    /\ ret = "none"
    /\ plain_outcome = "none"
    /\ stitch_ret = "none"
    /\ attempted = <<>>
    /\ materialized = {}
    /\ decided = FALSE
    /\ stitch_calls = <<>>
    /\ graph_calls = <<>>
    /\ graph_outcome = "none"
    /\ copy_outcome = "none"
    /\ copy_calls = <<>>
    /\ simple_calls = <<>>
    /\ simple_outcome = "none"
    /\ list_file = <<>>
    /\ rmtree_calls = 0
    /\ font_missing = FALSE
    /\ reported_clips = 0
    /\ successful_clips = 0
    /\ steps = <<>>
    /\ normalizations = <<>>
    /\ log = {}
    /\ raw = None
    /\ resolved = [raised |-> "pending"]
    /\ NoApp

\* ------------------------------------------------------------ orchestrator

\* check_dependencies() of the legacy run; process_videos only queues the
\* message "Checking dependencies...".
check_dependencies ==
    /\ pc = "deps"
    /\ \E ok \in BOOLEAN :
          pc' = IF variant = "textual" \/ ok THEN "mkdtemp" ELSE "done"
    /\ UNCHANGED <<cfgVars, resolverVars, uiVars, orchVars, histVars, dirVars, clipVars,
                   engineVars, files, exc, log>>

\* temp_dir = tempfile.mkdtemp(prefix="clip_stitcher_"), before the try block.
\* An OSError leaves the legacy run; process_videos' outer handler reports it.
mkdtemp ==
    /\ pc = "mkdtemp"
    /\ \E o \in FsOutcomes :
          IF o = "ok"
          THEN /\ temp_dir' = "exists"
               /\ pc' = "loop"
               /\ UNCHANGED <<exc, log>>
          ELSE /\ temp_dir' = temp_dir
               /\ pc' = "done"
               /\ exc' = IF variant = "textual" THEN "none" ELSE "OSError"
               /\ log' = IF variant = "textual"
                         THEN log \cup {"unexpected_error"} ELSE log
    /\ UNCHANGED <<cfgVars, resolverVars, uiVars, orchVars, histVars, rmtree_calls,
                   clipVars, engineVars, files>>

\* A handler that ends the run at the first failing reference.
ItemErrorTarget_Abort == "cleanup"

\* except Exception as e: print_error(...); continue
ItemErrorTarget == "loop"

\* One entry into the body of `for i, url in enumerate(urls, 1)`: the URL is
\* parsed; a ValueError is caught by the loop's handler, otherwise
\* process_video_clip is entered.
LoopBody ==
    /\ pc = "loop"
    /\ i < Len(urls)
    /\ i' = i + 1
    /\ attempted' = Append(attempted, i + 1)
    /\ LET r == IF variant = "main" THEN stitch_parse_youtube_url(urls[i + 1])
                ELSE parse_youtube_url(urls[i + 1])
       IN IF r.raised # "none"
          THEN /\ pc' = ItemErrorTarget
               /\ UNCHANGED <<video_id, start_time>>
          ELSE /\ pc' = IF variant = "main" THEN "dvs_download" ELSE "download"
               /\ video_id' = r.video_id
               /\ start_time' = r.timestamp
    /\ UNCHANGED <<cfgVars, resolverVars, uiVars, clip_paths, decided, stitch_calls,
                   histVars, dirVars, full_video_path, overlay, ret, plain_outcome,
                   materialized, steps, engineVars, files, exc, log>>

\* base_vf of video_processor.py, and the -vf chain of cmd_extract_sw.
base_vf ==
    [scale |-> <<"scale", 1920, 1080>>, pad |-> <<"pad", 1920, 1080>>,
     setsar |-> TRUE, fps |-> 30]

\* cmd of process_video_with_overlay (vf_chain = base_vf, drawtext),
\* cmd of process_video_without_overlay, and cmd_extract_sw of stitch.py.
cmd_software ==
    [encoder |-> "libx264", preset |-> "ultrafast", quality |-> <<"crf", 23>>,
     vf |-> base_vf, audio |-> "copy", container |-> "mp4"]

\* An accelerated command that leaves the frame rate of the source.
cmd_extract_hw_SourceFps ==
    [encoder |-> "h264_nvenc", preset |-> "fast", quality |-> <<"cq", 25>>,
     vf |-> [scale |-> <<"scale_npp", 1920, 1080>>,
             pad |-> <<"pad_npp", 1920, 1080>>, setsar |-> FALSE, fps |-> 0],
     audio |-> "copy", container |-> "mp4"]

\* cmd_extract_hw of stitch.py.
cmd_extract_hw ==
    [encoder |-> "h264_nvenc", preset |-> "fast", quality |-> <<"cq", 25>>,
     vf |-> [scale |-> <<"scale_npp", 1920, 1080>>,
             pad |-> <<"pad_npp", 1920, 1080>>, setsar |-> FALSE, fps |-> 30],
     audio |-> "copy", container |-> "mp4"]

\* The command line of each encode step.
EncodeCommand ==
    [overlay |-> cmd_software, plain |-> cmd_software,
     hw |-> cmd_extract_hw, sw |-> cmd_software]

\* The encode step of the call that exited with status 0, the one that wrote
\* clip_path.
EncodedBy(st) ==
    LET done == {k \in 1..Len(st) : st[k][1] \in DOMAIN EncodeCommand /\ st[k][2] = "ok"}
    IN st[CHOOSE k \in done : TRUE][1]

\* A collection that puts the newest segment first.
Collect_Prepend(paths, p) == <<p>> \o paths

\* clip_paths.append(clip_path)
Collect(paths, p) == Append(paths, p)

\* A counter that counts every reference the materializer was called for.
CountSuccess_EveryCall(counter, returned) == counter + 1

\* if process_video_clip(...): clip_paths.append(clip_path);
\* successful_clips += 1
CountSuccess(counter, returned) ==
    IF returned = "True" THEN counter + 1 ELSE counter

\* The loop body after process_video_clip has returned.
ClipReturn ==
    /\ pc = "clip_ret"
    /\ clip_paths' = IF ret = "True"
                     THEN Collect(clip_paths, ClipPath(i, video_id))
                     ELSE clip_paths
    /\ pc' = "loop"
    /\ video_id' = None
    /\ start_time' = 0
    /\ full_video_path' = None
    /\ overlay' = "none"
    /\ ret' = "none"
    /\ plain_outcome' = "none"
    /\ normalizations' = IF ret = "True"
                         THEN Append(normalizations, EncodeCommand[EncodedBy(steps)])
                         ELSE normalizations
    /\ steps' = <<>>
    /\ successful_clips' = IF variant = "textual" THEN successful_clips
                           ELSE CountSuccess(successful_clips, ret)
    /\ UNCHANGED <<cfgVars, resolverVars, uiVars, i, attempted, decided, stitch_calls,
                   font_missing, reported_clips, dirVars, materialized,
                   engineVars, files, exc, log>>

\* A decision that calls the engine whatever the loop collected.
ShouldStitch_Always(paths) == TRUE

\* if clip_paths:
ShouldStitch(paths) == paths # <<>>

\* The loop is exhausted: stitch_videos is called when clip_paths is not
\* empty, otherwise "No clips were successfully processed" is reported.
Decide ==
    /\ pc = "loop"
    /\ i = Len(urls)
    /\ decided' = TRUE
    /\ IF ShouldStitch(clip_paths)
       THEN /\ pc' = IF variant = "main" THEN "concatenate" ELSE "stitch"
            /\ stitch_calls' = Append(stitch_calls, clip_paths)
            /\ log' = log
       ELSE /\ pc' = "cleanup"
            /\ stitch_calls' = stitch_calls
            /\ log' = log \cup {"no_clips"}
    /\ UNCHANGED <<cfgVars, resolverVars, uiVars, i, clip_paths, attempted, histVars,
                   dirVars, clipVars,
                   engineVars, files, exc>>

\* Cleanup written after the try block instead of in a finally clause: an
\* exception leaves the run without it.
FinallyTarget_Skip == "done"

\* finally: the cleanup block is entered also when an exception propagates.
FinallyTarget == "cleanup"

\* stitch_videos has returned or raised. After True the success summary is
\* printed: with len(clip_paths) as the clip count when os.path.getsize of the
\* output succeeds, without a count when it raises.
AfterStitch ==
    /\ pc = "stitch_ret"
    /\ \E getsize \in FsOutcomes :
          IF exc # "none"
          THEN /\ getsize = "ok"
               /\ pc' = FinallyTarget
               /\ log' = log
               /\ reported_clips' = reported_clips
          ELSE IF stitch_ret = "True"
          THEN /\ pc' = "cleanup"
               /\ log' = log \cup {"final_success"}
               /\ reported_clips' = IF getsize = "ok" THEN Len(clip_paths)
                                    ELSE reported_clips
          ELSE /\ getsize = "ok"
               /\ pc' = "cleanup"
               /\ log' = log \cup {"failed_final"}
               /\ reported_clips' = reported_clips
    /\ UNCHANGED <<cfgVars, resolverVars, uiVars, orchVars, font_missing, normalizations,
                   successful_clips, dirVars, clipVars, engineVars, files, exc>>

\* A removal that leaves the directory in place and reports nothing.
rmtree_Noop(outcome) == "exists"

\* shutil.rmtree(temp_dir): the directory after the call.
rmtree(outcome) == IF outcome = "ok" THEN "removed" ELSE "exists"

\* A cleanup whose failure leaves the finally block as an exception.
rmtree_except_Raise(propagating) == "OSError"

\* except Exception as e: print_warning(...) around shutil.rmtree: the
\* failure is caught; the exception of the try block, if any, goes on
\* propagating once the finally block ends.
rmtree_except(propagating) == propagating

\* The finally block: rmtree, its failure reported as a warning. An exception
\* of the try block then leaves process_with_legacy_ui; process_videos' outer
\* handler catches it and queues "Unexpected error".
Cleanup ==
    /\ pc = "cleanup"
    /\ \E o \in FsOutcomes :
          LET leaving == IF o = "ok" THEN exc ELSE rmtree_except(exc)
          IN /\ temp_dir' = rmtree(o)
             /\ files' = IF o = "ok" THEN {} ELSE files
             /\ log' = log \cup {IF o = "ok" THEN "cleanup_complete" ELSE "cleanup_warning"}
                           \cup (IF variant = "textual" /\ leaving # "none"
                                 THEN {"unexpected_error"} ELSE {})
             /\ exc' = IF variant = "textual" THEN "none" ELSE leaving
    /\ rmtree_calls' = rmtree_calls + 1
    /\ pc' = "done"
    /\ UNCHANGED <<cfgVars, resolverVars, uiVars, orchVars, histVars, clipVars, engineVars>>

\* ------------------------------------------------------------ materializer

\* What a materializer call leaves alone, whatever its step.
ClipFrame == UNCHANGED <<cfgVars, resolverVars, uiVars, orchVars, normalizations,
                         reported_clips, successful_clips, dirVars, video_id,
                         start_time,
                         engineVars, exc, log>>

\* A materializer that runs yt-dlp again after it failed.
AfterFetchFailure_Retry == "download"

\* if not _download_video(...): return False, and `except Exception`:
\* return False
AfterFetchFailure == "clip_ret"

\* _download_video: yt-dlp. A non-zero exit makes it return False, and
\* process_video_clip returns False; an OSError is caught by
\* process_video_clip's `except Exception` (return False). With exit status 0
\* the output file f"{video_id}_full.<ext>" has been written, or, when yt-dlp
\* chose another name, it has not.
_download_video ==
    /\ pc = "download"
    /\ \E o \in RunOutcomes, written \in BOOLEAN :
          /\ steps' = Append(steps, <<"fetch", o>>)
          /\ IF o = "ok"
             THEN /\ files' = IF written THEN files \cup {OriginPath(video_id)} ELSE files
                  /\ pc' = "find"
                  /\ ret' = ret
             ELSE /\ written
                  /\ files' = files
                  /\ pc' = AfterFetchFailure
                  /\ ret' = IF AfterFetchFailure = "clip_ret" THEN "False" ELSE ret
    /\ UNCHANGED <<full_video_path, overlay, materialized, font_missing,
                   plain_outcome>>
    /\ ClipFrame

\* The step taken after glob found no downloaded file, were the call to go on.
AfterMissingFile_Continue == "probe"

\* if not full_video_path: return False
AfterMissingFile == "clip_ret"

\* _find_downloaded_file: glob(f"{video_id}_full.*"); None makes
\* process_video_clip return False.
_find_downloaded_file ==
    /\ pc = "find"
    /\ IF OriginPath(video_id) \in files
       THEN /\ full_video_path' = OriginPath(video_id)
            /\ steps' = Append(steps, <<"locate", "ok">>)
            /\ pc' = "probe"
            /\ ret' = ret
       ELSE /\ full_video_path' = None
            /\ steps' = Append(steps, <<"locate", "missing">>)
            /\ pc' = AfterMissingFile
            /\ ret' = IF AfterMissingFile = "clip_ret" THEN "False" ELSE ret
    /\ UNCHANGED <<files, overlay, materialized, font_missing, plain_outcome>>
    /\ ClipFrame

\* The ffprobe command of _show_source_info and of download_video_segment:
\* -select_streams v:0 -show_entries stream=width,height,r_frame_rate
ffprobe_args ==
    [select_streams |-> "v:0",
     show_entries |-> {"width", "height", "r_frame_rate"}]

\* A probe whose failure ends the call.
AfterProbeFailure_Return == "clip_ret"

\* except Exception: pass  # Not critical if this fails
AfterProbeFailure == "overlay"

\* _show_source_info: ffprobe inside try / except Exception: pass.
_show_source_info ==
    /\ pc = "probe"
    /\ \E o \in RunOutcomes :
          /\ steps' = Append(steps, <<"probe", IF o = "ok" THEN "ok" ELSE "failed">>)
          /\ pc' = IF o = "ok" THEN "overlay" ELSE AfterProbeFailure
          /\ ret' = IF o # "ok" /\ AfterProbeFailure = "clip_ret" THEN "False" ELSE ret
    /\ UNCHANGED <<files, full_video_path, overlay, materialized,
                   font_missing, plain_outcome>>
    /\ ClipFrame

\* create_drawtext_filter(font_filename, clip_num): the drawtext options.
create_drawtext_filter(font_filename, clip_num) ==
    [fontfile |-> font_filename, text |-> clip_num, x |-> 24, y |-> 24,
     fontsize |-> 96, fontcolor |-> "white", box |-> 1,
     boxcolor |-> "black@0.5", boxborderw |-> 10]

\* The clip_num argument of process_video_clip: the loop counter i of
\* enumerate(urls, 1), which also numbers the clip's file name.
clip_num == i

\* process_video_with_overlay, called from process_video_clip:
\*   find_font_file() returns None (no fonts directory, no font file in it):
\*     return False;
\*   prepare_font_for_overlay: shutil.copy2 into temp_dir, an OSError
\*     propagates to process_video_clip's `except Exception` (return False);
\*   ffmpeg with the drawtext filter: True on exit 0, False on
\*     CalledProcessError, an OSError propagates likewise. The step records
\*     the drawtext filter the command was run with.
process_video_with_overlay ==
    /\ pc = "overlay"
    /\ \E font \in {"no_fonts_dir", "no_font_file", "found"},
          copy \in FsOutcomes, o \in RunOutcomes :
          /\ font_missing' = (font_missing \/ font # "found")
          /\ IF font # "found"
             THEN /\ copy = "ok" /\ o = "ok"
                  /\ overlay' = font
                  /\ files' = files
                  /\ pc' = "plain"
                  /\ ret' = ret
             ELSE IF copy # "ok"
             THEN /\ o = "ok"
                  /\ overlay' = "copy_error"
                  /\ files' = files
                  /\ pc' = "clip_ret"
                  /\ ret' = "False"
             ELSE IF o = "ok"
             THEN /\ overlay' = "ok"
                  /\ files' = files \cup {TempFontPath, ClipPath(i, video_id)}
                  /\ pc' = "remove"
                  /\ ret' = ret
             ELSE IF o = "CalledProcessError"
             THEN /\ overlay' = "encode_failed"
                  /\ files' = files \cup {TempFontPath}
                  /\ pc' = "plain"
                  /\ ret' = ret
             ELSE /\ overlay' = "encode_oserror"
                  /\ files' = files \cup {TempFontPath}
                  /\ pc' = "clip_ret"
                  /\ ret' = "False"
    /\ steps' = Append(steps,
                       IF overlay' \in {"no_fonts_dir", "no_font_file", "copy_error"}
                       THEN <<"overlay", overlay'>>
                       ELSE <<"overlay", overlay',
                              create_drawtext_filter(TempFontPath, clip_num)>>)
    /\ \E sw \in RunOutcomes : plain_outcome' = sw
    /\ UNCHANGED <<full_video_path, materialized>>
    /\ ClipFrame

\* A materializer that goes on to its cleanup after the fallback encode failed.
AfterEncodeFailure_Remove == "remove"

\* except subprocess.CalledProcessError / except Exception: return False
AfterEncodeFailure == "clip_ret"

\* process_video_without_overlay (if not success:): ffmpeg with check=True;
\* CalledProcessError and any other exception make process_video_clip
\* return False.
process_video_without_overlay ==
    /\ pc = "plain"
    /\ steps' = Append(steps, <<"plain", plain_outcome>>)
    /\ IF plain_outcome = "ok"
       THEN /\ files' = files \cup {ClipPath(i, video_id)}
            /\ pc' = "remove"
            /\ ret' = ret
       ELSE /\ files' = files
            /\ pc' = AfterEncodeFailure
            /\ ret' = IF AfterEncodeFailure = "clip_ret" THEN "False" ELSE ret
    /\ UNCHANGED <<full_video_path, overlay, materialized, font_missing,
                   plain_outcome>>
    /\ ClipFrame

\* os.remove(full_video_path), then return True; an OSError is caught by
\* `except Exception` (return False).
os_remove ==
    /\ pc = "remove"
    /\ \E o \in FsOutcomes :
          /\ steps' = Append(steps, <<"remove", o>>)
          /\ IF o = "ok"
             THEN /\ files' = files \ {full_video_path}
                  /\ ret' = "True"
                  /\ materialized' = materialized \cup {i}
             ELSE /\ files' = files
                  /\ ret' = "False"
                  /\ materialized' = materialized
    /\ pc' = "clip_ret"
    /\ UNCHANGED <<full_video_path, overlay, font_missing, plain_outcome>>
    /\ ClipFrame

\* ---------------------------------- materializer of stitch.py (variant main)

\* download_video_segment: yt-dlp with check=True inside the function's try;
\* CalledProcessError and any other exception make it return False.
yt_dlp ==
    /\ pc = "dvs_download"
    /\ \E o \in RunOutcomes, written \in BOOLEAN :
          /\ steps' = Append(steps, <<"fetch", o>>)
          /\ IF o = "ok"
             THEN /\ files' = IF written THEN files \cup {OriginPath(video_id)} ELSE files
                  /\ pc' = "dvs_glob"
                  /\ ret' = ret
             ELSE /\ written
                  /\ files' = files
                  /\ pc' = "clip_ret"
                  /\ ret' = "False"
    /\ UNCHANGED <<full_video_path, overlay, materialized, font_missing,
                   plain_outcome>>
    /\ ClipFrame

\* downloaded_files = glob(f"{video_id}_full.*"); none: FileNotFoundError is
\* raised and caught by `except Exception` (return False).
downloaded_files ==
    /\ pc = "dvs_glob"
    /\ IF OriginPath(video_id) \in files
       THEN /\ full_video_path' = OriginPath(video_id)
            /\ steps' = Append(steps, <<"locate", "ok">>)
            /\ pc' = "dvs_probe"
            /\ ret' = ret
       ELSE /\ full_video_path' = None
            /\ steps' = Append(steps, <<"locate", "missing">>)
            /\ pc' = "clip_ret"
            /\ ret' = "False"
    /\ UNCHANGED <<files, overlay, materialized, font_missing, plain_outcome>>
    /\ ClipFrame

\* probe_cmd: ffprobe inside try / except Exception: print_warning.
probe_cmd ==
    /\ pc = "dvs_probe"
    /\ \E o \in RunOutcomes :
          steps' = Append(steps, <<"probe", IF o = "ok" THEN "ok" ELSE "failed">>)
    /\ pc' = "dvs_hw"
    /\ UNCHANGED <<files, full_video_path, overlay, ret, materialized,
                   font_missing, plain_outcome>>
    /\ ClipFrame

\* The encode tried after the accelerated one exited non-zero, were there none.
AfterHwFailure_GiveUp == "clip_ret"

\* except subprocess.CalledProcessError: ... subprocess.run(cmd_extract_sw, ...)
AfterHwFailure == "dvs_sw"

\* subprocess.run(cmd_extract_hw, check=True): on CalledProcessError the
\* software command is run; an OSError is caught by `except Exception`.
run_cmd_extract_hw ==
    /\ pc = "dvs_hw"
    /\ \E o \in RunOutcomes :
          /\ steps' = Append(steps, <<"hw", o>>)
          /\ IF o = "ok"
             THEN /\ files' = files \cup {ClipPath(i, video_id)}
                  /\ pc' = "dvs_remove"
                  /\ ret' = ret
             ELSE IF o = "CalledProcessError"
             THEN /\ files' = files
                  /\ pc' = AfterHwFailure
                  /\ ret' = IF AfterHwFailure = "clip_ret" THEN "False" ELSE ret
             ELSE /\ files' = files
                  /\ pc' = "clip_ret"
                  /\ ret' = "False"
    /\ \E sw \in RunOutcomes : plain_outcome' = sw
    /\ UNCHANGED <<full_video_path, overlay, materialized, font_missing>>
    /\ ClipFrame

\* subprocess.run(cmd_extract_sw, check=True) in the handler: its
\* CalledProcessError or OSError reaches the function's except clauses.
run_cmd_extract_sw ==
    /\ pc = "dvs_sw"
    /\ steps' = Append(steps, <<"sw", plain_outcome>>)
    /\ IF plain_outcome = "ok"
       THEN /\ files' = files \cup {ClipPath(i, video_id)}
            /\ pc' = "dvs_remove"
            /\ ret' = ret
       ELSE /\ files' = files
            /\ pc' = "clip_ret"
            /\ ret' = "False"
    /\ UNCHANGED <<full_video_path, overlay, materialized, font_missing,
                   plain_outcome>>
    /\ ClipFrame

\* os.remove(full_video_path), then return True.
dvs_remove ==
    /\ pc = "dvs_remove"
    /\ \E o \in FsOutcomes :
          /\ steps' = Append(steps, <<"remove", o>>)
          /\ IF o = "ok"
             THEN /\ files' = files \ {full_video_path}
                  /\ ret' = "True"
                  /\ materialized' = materialized \cup {i}
             ELSE /\ files' = files
                  /\ ret' = "False"
                  /\ materialized' = materialized
    /\ pc' = "clip_ret"
    /\ UNCHANGED <<full_video_path, overlay, font_missing, plain_outcome>>
    /\ ClipFrame

\* ---------------------------------------------------------- assembly engine

EngineFrame == UNCHANGED <<cfgVars, resolverVars, uiVars, orchVars, histVars, dirVars,
                           clipVars, log>>

\* An engine that blends whatever use_transitions says.
Strategy_AlwaysBlend(transitions) == "with_transitions"

\* if use_transitions: stitch_videos_with_transitions(...) else:
\* stitch_videos_simple(...)
Strategy(transitions) == IF transitions THEN "with_transitions" ELSE "simple"

\* stitch_videos: the dispatch on use_transitions.
stitch_videos ==
    /\ pc = "stitch"
    /\ pc' = Strategy(use_transitions)
    /\ UNCHANGED <<engineVars, files, exc>>
    /\ EngineFrame

\* normalized_path = clip_path.replace('\\', '/'): a backslash becomes a
\* forward slash, the rest stays. Of the parts of a path only its head can be
\* a backslash: the clip number is digits and the id matches [a-zA-Z0-9_-]+.
normalized_path(clip_path) ==
    [clip_path EXCEPT ![1] = IF @ = "\\" THEN "/" ELSE @]

\* A manifest written last segment first.
create_video_list_file_Reversed(clips) ==
    [k \in 1..Len(clips) |-> [file |-> normalized_path(clips[Len(clips) + 1 - k])]]

\* create_video_list_file: for clip_path in clip_paths:
\* f.write(f"file '{normalized_path}'\n"), the lines of video_list.txt.
create_video_list_file(clips) ==
    [k \in 1..Len(clips) |-> [file |-> normalized_path(clips[k])]]

\* for i, clip_path in enumerate(clip_paths): inputs.extend(['-i', clip_path])
inputs(clips) ==
    [k \in 1..(2 * Len(clips)) |-> IF k % 2 = 1 THEN "-i" ELSE clips[k \div 2]]

\* st= of the fade-out filters: clip_duration - transition_duration
FadeOutStart == clip_duration - transition_duration

\* fade=t=in:st=0:d={transition_duration}
FadeIn == [t |-> "in", st |-> 0, d |-> transition_duration]

\* fade=t=out:st={clip_duration-transition_duration}:d={transition_duration}
FadeOut == [t |-> "out", st |-> FadeOutStart, d |-> transition_duration]

\* A graph that fades every clip in and out.
Fades_BothEverywhere(idx, n) == <<FadeIn, FadeOut>>

\* The fades of clip idx (counted from 0) of n: if i == 0 ... elif
\* i == len(clip_paths) - 1 ... else ...
Fades(idx, n) ==
    IF idx = 0 THEN <<FadeOut>>
    ELSE IF idx = n - 1 THEN <<FadeIn>>
    ELSE <<FadeIn, FadeOut>>

\* video_filters: [{i}:v]fade=...[v{i}] for every clip.
video_filters(n) ==
    [k \in 1..n |-> [input |-> <<k - 1, "v">>, filter |-> "fade",
                     fades |-> Fades(k - 1, n), label |-> <<"v", k - 1>>]]

\* audio_filters: [{i}:a]afade=...[a{i}] for every clip.
audio_filters(n) ==
    [k \in 1..n |-> [input |-> <<k - 1, "a">>, filter |-> "afade",
                     fades |-> Fades(k - 1, n), label |-> <<"a", k - 1>>]]

\* [v0][v1]...concat=n={len(clip_paths)}:v=1:a=0[vout]
video_concat(n) ==
    [inputs |-> [k \in 1..n |-> <<"v", k - 1>>], filter |-> "concat",
     n |-> n, v |-> 1, a |-> 0, label |-> "vout"]

\* [a0][a1]...concat=n={len(clip_paths)}:v=0:a=1[aout]
audio_concat(n) ==
    [inputs |-> [k \in 1..n |-> <<"a", k - 1>>], filter |-> "concat",
     n |-> n, v |-> 0, a |-> 1, label |-> "aout"]

\* filter_complex = video_filters + audio_filters + [video_concat, audio_concat]
filter_complex(n) ==
    video_filters(n) \o audio_filters(n) \o <<video_concat(n), audio_concat(n)>>

\* An engine that takes an empty list like any other.
NoClips_Ignored(clips) == FALSE

\* if not clip_paths: print_error("No clips to concatenate"); return False
NoClips(clips) == clips = <<>>

\* An engine without the single-clip shortcut.
SingleClip_Never(clips) == FALSE

\* if len(clip_paths) == 1:
SingleClip(clips) == Len(clips) = 1

\* ['ffmpeg', '-i', clip_paths[0], '-c', 'copy', output_path, '-y']
cmd_copy(clip) == [i |-> clip, c |-> "copy", output |-> "output_path", y |-> TRUE]

\* stitch_videos_with_transitions:
\*   no clips: return False;
\*   one clip: ffmpeg -c copy, True on exit 0, False on CalledProcessError;
\*   otherwise the filter graph is built and run: True on exit 0, on
\*   CalledProcessError stitch_videos_simple is called and its result returned.
\* An OSError of subprocess.run is not caught and leaves the function.
stitch_videos_with_transitions ==
    /\ pc = "with_transitions"
    /\ \E o \in RunOutcomes :
          IF NoClips(clip_paths)
          THEN /\ o = "ok"
               /\ stitch_ret' = "False"
               /\ pc' = "stitch_ret"
               /\ UNCHANGED <<graph_calls, graph_outcome, copy_outcome, copy_calls, exc>>
          ELSE IF SingleClip(clip_paths)
          THEN /\ copy_outcome' = o
               /\ copy_calls' = Append(copy_calls, cmd_copy(clip_paths[1]))
               /\ stitch_ret' = IF o = "ok" THEN "True"
                                ELSE IF o = "CalledProcessError" THEN "False"
                                ELSE stitch_ret
               /\ exc' = IF o = "OSError" THEN "OSError" ELSE exc
               /\ pc' = "stitch_ret"
               /\ UNCHANGED <<graph_calls, graph_outcome>>
          ELSE /\ graph_calls' = Append(graph_calls,
                                   [clips |-> clip_paths, fade_out_st |-> FadeOutStart,
                                    inputs |-> inputs(clip_paths),
                                    filter_complex |-> filter_complex(Len(clip_paths))])
               /\ graph_outcome' = o
               /\ stitch_ret' = IF o = "ok" THEN "True" ELSE stitch_ret
               /\ exc' = IF o = "OSError" THEN "OSError" ELSE exc
               /\ pc' = IF o = "CalledProcessError" THEN "simple" ELSE "stitch_ret"
               /\ copy_outcome' = copy_outcome
               /\ copy_calls' = copy_calls
    /\ UNCHANGED <<simple_calls, simple_outcome, list_file, files>>
    /\ EngineFrame

\* stitch_videos_simple: no clips: return False; otherwise video_list.txt is
\* written and ffmpeg -f concat -c copy run on it: True on exit 0, False on
\* CalledProcessError; an OSError leaves the function.
stitch_videos_simple ==
    /\ pc = "simple"
    /\ \E o \in RunOutcomes :
          IF NoClips(clip_paths)
          THEN /\ o = "ok"
               /\ stitch_ret' = "False"
               /\ UNCHANGED <<simple_calls, simple_outcome, list_file, files, exc>>
          ELSE /\ files' = files \cup {ListFilePath}
               /\ list_file' = create_video_list_file(clip_paths)
               /\ simple_calls' = Append(simple_calls, clip_paths)
               /\ simple_outcome' = o
               /\ stitch_ret' = IF o = "ok" THEN "True"
                                ELSE IF o = "CalledProcessError" THEN "False"
                                ELSE stitch_ret
               /\ exc' = IF o = "OSError" THEN "OSError" ELSE exc
    /\ pc' = "stitch_ret"
    /\ UNCHANGED <<graph_calls, graph_outcome, copy_outcome, copy_calls>>
    /\ EngineFrame

\* concatenate_videos of stitch.py: the same steps as stitch_videos_simple,
\* called directly by main().
concatenate_videos ==
    /\ pc = "concatenate"
    /\ \E o \in RunOutcomes :
          IF clip_paths = <<>>
          THEN /\ o = "ok"
               /\ stitch_ret' = "False"
               /\ UNCHANGED <<simple_calls, simple_outcome, list_file, files, exc>>
          ELSE /\ files' = files \cup {ListFilePath}
               /\ list_file' = create_video_list_file(clip_paths)
               /\ simple_calls' = Append(simple_calls, clip_paths)
               /\ simple_outcome' = o
               /\ stitch_ret' = IF o = "ok" THEN "True"
                                ELSE IF o = "CalledProcessError" THEN "False"
                                ELSE stitch_ret
               /\ exc' = IF o = "OSError" THEN "OSError" ELSE exc
    /\ pc' = "stitch_ret"
    /\ UNCHANGED <<graph_calls, graph_outcome, copy_outcome, copy_calls>>
    /\ EngineFrame

\* ---------------------------------------------------------- specifications

process_video_clip ==
    \/ _download_video
    \/ _find_downloaded_file
    \/ _show_source_info
    \/ process_video_with_overlay
    \/ process_video_without_overlay
    \/ os_remove

download_video_segment ==
    \/ yt_dlp
    \/ downloaded_files
    \/ probe_cmd
    \/ run_cmd_extract_hw
    \/ run_cmd_extract_sw
    \/ dvs_remove

Assemble ==
    \/ stitch_videos
    \/ stitch_videos_with_transitions
    \/ stitch_videos_simple
    \/ concatenate_videos

Next ==
    \/ check_dependencies
    \/ mkdtemp
    \/ LoopBody
    \/ process_video_clip
    \/ download_video_segment
    \/ ClipReturn
    \/ Decide
    \/ Assemble
    \/ AfterStitch
    \/ Cleanup

\* A whole run of the orchestrator.
Spec == Init /\ [][Next]_vars

\* The assembly engine alone: stitch_videos called on any segment list of up
\* to MaxClips files of temp_dir, with the settings a config.yaml may hold
\* (_load_from_yaml sets every known key to the value given, unvalidated).
InitAssembly ==
    /\ variant = "legacy"
    /\ urls = <<>>
    /\ use_transitions \in BOOLEAN
    /\ clip_duration \in 1..MaxDuration
    /\ transition_duration \in 0..MaxDuration
    /\ pc = "stitch"
    /\ i = 0
    /\ clip_paths \in {[k \in 1..n |-> ClipPath(k, <<"a">>)] : n \in 0..MaxClips}
    /\ temp_dir = "exists"
    /\ files = {clip_paths[k] : k \in 1..Len(clip_paths)}
    /\ exc = "none"
    /\ video_id = None
    /\ start_time = 0
    /\ full_video_path = None
    /\ overlay = "none"
    /\ ret = "none"
    /\ plain_outcome = "none"
    /\ stitch_ret = "none"
    /\ attempted = <<>>
    /\ materialized = {}
    /\ decided = FALSE
    /\ stitch_calls = <<clip_paths>>
    /\ graph_calls = <<>>
    /\ graph_outcome = "none"
    /\ copy_outcome = "none"
    /\ copy_calls = <<>>
    /\ simple_calls = <<>>
    /\ simple_outcome = "none"
    /\ list_file = <<>>
    /\ rmtree_calls = 0
    /\ font_missing = FALSE
    /\ reported_clips = 0
    /\ successful_clips = 0
    /\ steps = <<>>
    /\ normalizations = [k \in 1..Len(clip_paths) |-> cmd_software]
    /\ log = {}
    /\ raw = None
    /\ resolved = [raised |-> "pending"]
    /\ NoApp

NextAssembly ==
    \/ stitch_videos
    \/ stitch_videos_with_transitions
    \/ stitch_videos_simple

SpecAssembly == InitAssembly /\ [][NextAssembly]_vars

\* A run of the orchestrator up to the return of the engine, or the engine
\* called directly with any segment list, the empty one included.
InitCalls == Init \/ InitAssembly

NextCalls ==
    \/ check_dependencies
    \/ mkdtemp
    \/ LoopBody
    \/ process_video_clip
    \/ download_video_segment
    \/ ClipReturn
    \/ Decide
    \/ Assemble

SpecCalls == InitCalls /\ [][NextCalls]_vars

\* The lines the resolver is called with: every line of up to MaxUrlLen
\* tokens, and every line made of a URL head, a video id and a tail of up to
\* MaxQueryLen tokens.
RawStrings ==
    SeqsUpTo(Tokens, MaxUrlLen) \cup
    {<<h, "a">> \o q : h \in UNION {patterns[k] : k \in 1..3},
                       q \in SeqsUpTo(QueryTokens, MaxQueryLen)}

\* The resolver alone: parse_youtube_url of utils.youtube (variant "legacy")
\* or of stitch.py (variant "main") is about to be called with a line of the
\* input file, no run in progress.
InitResolve ==
    /\ raw \in RawStrings
    /\ resolved = [raised |-> "pending"]
    /\ pc = "parse"
    /\ variant \in {"legacy", "main"}
    /\ urls = <<raw>>
    /\ use_transitions = TRUE
    /\ clip_duration = DefaultClipDuration
    /\ transition_duration = DefaultTransitionDuration
    /\ i = 0
    /\ clip_paths = <<>>
    /\ temp_dir = "none"
    /\ files = {}
    /\ exc = "none"
    /\ video_id = None
    /\ start_time = 0
    /\ full_video_path = None
    /\ overlay = "none"
    /\ ret = "none"
    /\ plain_outcome = "none"
    /\ stitch_ret = "none"
    /\ attempted = <<>>
    /\ materialized = {}
    /\ decided = FALSE
    /\ stitch_calls = <<>>
    /\ graph_calls = <<>>
    /\ graph_outcome = "none"
    /\ copy_outcome = "none"
    /\ copy_calls = <<>>
    /\ simple_calls = <<>>
    /\ simple_outcome = "none"
    /\ list_file = <<>>
    /\ rmtree_calls = 0
    /\ font_missing = FALSE
    /\ reported_clips = 0
    /\ successful_clips = 0
    /\ steps = <<>>
    /\ normalizations = <<>>
    /\ log = {}
    /\ NoApp

\* video_id, start_time = parse_youtube_url(url): the call returns or raises.
CallParse ==
    /\ pc = "parse"
    /\ resolved' = IF variant = "main" THEN stitch_parse_youtube_url(raw)
                   ELSE parse_youtube_url(raw)
    /\ pc' = "parsed"
    /\ UNCHANGED <<cfgVars, raw, uiVars, orchVars, histVars, dirVars, clipVars,
                   engineVars, files, exc, log>>

NextResolve == CallParse

SpecResolve == InitResolve /\ [][NextResolve]_vars

\* -------------------------------------------------------------- Textual UI

\* The lines a Textual application is constructed with: a short link, and a
\* line that matches no URL shape.
UiRefPool == { <<"https://", "youtu.be/", "b">>, <<"https://", "a">> }

\* What one thread records about the messages it has put: how many
\* processing_complete messages, and whether it put any message after one.
Put(th, msgs) ==
    LET done == {k \in 1..Len(msgs) : msgs[k][1] = "processing_complete"}
    IN [th EXCEPT
          !.completes = th.completes + Cardinality(done),
          !.stray = \/ th.stray
                    \/ (th.completes > 0 /\ msgs # <<>>)
                    \/ \E k \in done : k < Len(msgs)]

\* queue_message(msg_type, data) for each message of msgs, in order:
\* self.message_queue.put((msg_type, data)).
queue_message(msgs) ==
    /\ Len(message_queue) + Len(msgs) <= MaxQueue
    /\ message_queue' = message_queue \o msgs

\* start_btn.disabled = True; start_btn.label = "Processing..."
DisableStart(btn) == [disabled |-> TRUE, label |-> "Processing..."]

\* on_button_pressed for start_btn (Button.Pressed is posted for an enabled
\* button only) and start_processing: the button is disabled and a thread is
\* started on process_videos.
start_processing ==
    /\ ~widgets.start_btn.disabled
    /\ \E t \in Threads :
          /\ threads[t].pc = "unstarted"
          /\ \A u \in 1..(t - 1) : threads[u].pc # "unstarted"
          /\ threads' = [threads EXCEPT ![t].pc = "started"]
    /\ widgets' = [widgets EXCEPT !.start_btn = DisableStart(@)]
    /\ UNCHANGED <<cfgVars, resolverVars, message_queue, app, orchVars, histVars,
                   dirVars, clipVars, engineVars, pc, files, exc, log>>

\* What a thread step leaves alone.
ThreadFrame == UNCHANGED <<cfgVars, resolverVars, app, widgets, orchVars,
                           histVars, dirVars, clipVars, engineVars, pc, files,
                           exc, log>>

\* process_videos up to the loop: "Checking dependencies..." is queued, the
\* scratch directory created and announced. An OSError of mkdtemp reaches
\* the outer handler.
pv_mkdtemp(t) ==
    /\ threads[t].pc = "started"
    /\ \E o \in FsOutcomes :
          LET msgs == IF o = "ok"
                      THEN << <<"info", "Checking dependencies...">>,
                              <<"info", "Working directory">> >>
                      ELSE << <<"info", "Checking dependencies...">> >>
          IN /\ queue_message(msgs)
             /\ threads' = [threads EXCEPT
                   ![t] = [Put(@, msgs) EXCEPT
                             !.pc = IF o = "ok" THEN "loop" ELSE "outer_except",
                             !.temp_dir = (o = "ok"),
                             !.raised = (o # "ok")]]
    /\ ThreadFrame

\* One pass of `for i, url in enumerate(self.urls, 1)`: the messages of the
\* pass in the order queued; a ValueError of parse_youtube_url is caught by
\* the loop's handler (error, clip_failed); process_video_clip returns True
\* or False.
pv_item(t) ==
    /\ threads[t].pc = "loop"
    /\ threads[t].i < Len(urls)
    /\ \E returned \in BOOLEAN :
          LET n == threads[t].i + 1
              r == parse_youtube_url(urls[n])
              head == << <<"current_clip", <<"Processing clip", n, app.total_clips>> >>,
                         <<"current_progress", 0>> >>
              msgs ==
                 IF r.raised # "none"
                 THEN head \o << <<"error", "Error processing clip">>,
                                 <<"clip_failed", n>> >>
                 ELSE head \o
                      << <<"current_progress", 20>>, <<"info", "Downloading clip">>,
                         <<"current_progress", 60>> >> \o
                      (IF returned
                       THEN << <<"success", "Clip processed successfully">>,
                               <<"clip_success", n>> >>
                       ELSE << <<"warning", "Skipped clip due to error">>,
                               <<"clip_failed", n>> >>) \o
                      << <<"current_progress", 100>>, <<"overall_progress", n>> >>
          IN /\ r.raised # "none" => returned
             /\ queue_message(msgs)
             /\ threads' = [threads EXCEPT
                   ![t] = [Put(@, msgs) EXCEPT
                             !.i = n,
                             !.clips = IF r.raised = "none" /\ returned
                                       THEN @ + 1 ELSE @]]
    /\ ThreadFrame

\* The loop is exhausted: with clips collected, stitch_videos is called; it
\* returns True (the summary is queued, or a plain success message when
\* os.path.getsize raises), returns False, or raises the OSError of its
\* ffmpeg run. Without clips an error is queued.
pv_final(t) ==
    /\ threads[t].pc = "loop"
    /\ threads[t].i = Len(urls)
    /\ \E o \in {"True", "False", "OSError"}, getsize \in FsOutcomes :
          LET head == << <<"final_label", <<"Creating final video...">> >>,
                         <<"final_progress", 20>> >>
              msgs ==
                 IF threads[t].clips = 0
                 THEN << <<"error", "No clips were successfully processed">> >>
                 ELSE IF o = "True"
                 THEN head \o << <<"final_progress", 100>>,
                                 IF getsize = "ok"
                                 THEN <<"final_success", threads[t].clips>>
                                 ELSE <<"success", "Video compilation created">> >>
                 ELSE IF o = "False"
                 THEN head \o << <<"error", "Failed to create final video">> >>
                 ELSE head
          IN /\ threads[t].clips = 0 => (o = "True" /\ getsize = "ok")
             /\ o # "True" => getsize = "ok"
             /\ queue_message(msgs)
             /\ threads' = [threads EXCEPT
                   ![t] = [Put(@, msgs) EXCEPT
                             !.pc = "finally",
                             !.raised = (threads[t].clips > 0 /\ o = "OSError")]]
    /\ ThreadFrame

\* The handler the exception of the try block reaches once the finally
\* block has ended.
AfterFinally(raised) == IF raised THEN "outer_except" ELSE "exited"

\* The finally block of process_videos: rmtree, "Cleanup complete" or the
\* warning, then queue_message("processing_complete", True); an exception of
\* the try block then goes on to the outer handler.
pv_finally(t) ==
    /\ threads[t].pc = "finally"
    /\ \E o \in FsOutcomes :
          LET msgs == << IF o = "ok" THEN <<"info", "Cleanup complete">>
                         ELSE <<"warning", "Cleanup warning">>,
                         <<"processing_complete", TRUE>> >>
          IN /\ queue_message(msgs)
             /\ threads' = [threads EXCEPT
                   ![t] = [Put(@, msgs) EXCEPT
                             !.pc = AfterFinally(threads[t].raised),
                             !.cleaned = TRUE]]
    /\ ThreadFrame

\* except Exception as e: of process_videos: "Unexpected error" and
\* processing_complete are queued, and the thread ends.
pv_outer_except(t) ==
    /\ threads[t].pc = "outer_except"
    /\ LET msgs == << <<"error", "Unexpected error">>,
                      <<"processing_complete", TRUE>> >>
       IN /\ queue_message(msgs)
          /\ threads' = [threads EXCEPT
                ![t] = [Put(@, msgs) EXCEPT !.pc = "exited", !.raised = FALSE]]
    /\ ThreadFrame

\* process_videos, run by thread t.
process_videos(t) ==
    \/ pv_mkdtemp(t)
    \/ pv_item(t)
    \/ pv_final(t)
    \/ pv_finally(t)
    \/ pv_outer_except(t)

\* self.successful_clips += 1
CountClipSuccess(counted, n) == counted + 1

\* handle_message(msg_type, data) on the application state u = [app, widgets].
\* The info, success, warning, error and final_success messages write lines
\* to the Log widget only.
handle_message(u, msg_type, data) ==
    IF msg_type = "current_clip"
    THEN [u EXCEPT !.widgets.current_label = data]
    ELSE IF msg_type = "current_progress"
    THEN [u EXCEPT !.widgets.current_progress = data]
    ELSE IF msg_type = "overall_progress"
    THEN [u EXCEPT !.widgets.overall_progress = data]
    ELSE IF msg_type = "final_label"
    THEN [u EXCEPT !.widgets.final_label = data]
    ELSE IF msg_type = "final_progress"
    THEN [u EXCEPT !.widgets.final_progress = data]
    ELSE IF msg_type = "clip_success"
    THEN [u EXCEPT
            !.app.successful_clips = CountClipSuccess(@, data),
            !.widgets.successful_clips = CountClipSuccess(u.app.successful_clips, data)]
    ELSE IF msg_type = "clip_failed"
    THEN [u EXCEPT !.widgets.failed_clips = data - u.app.successful_clips]
    ELSE IF msg_type = "processing_complete"
    THEN [u EXCEPT
            !.widgets.start_btn = [disabled |-> FALSE, label |-> "Start Processing"],
            !.app.processing_complete = TRUE]
    ELSE u

\* while True: msg_type, data = self.message_queue.get_nowait();
\* self.handle_message(msg_type, data)
RECURSIVE Drain(_, _)
Drain(u, q) ==
    IF q = <<>> THEN u
    ELSE Drain(handle_message(u, Head(q)[1], Head(q)[2]), Tail(q))

\* check_message_queue, called every 0.1 s on the UI thread: every message
\* in the queue is handled, in order, until the queue is empty.
check_message_queue ==
    /\ message_queue # <<>>
    /\ LET u == Drain([app |-> app, widgets |-> widgets], message_queue)
       IN /\ app' = u.app
          /\ widgets' = u.widgets
    /\ message_queue' = <<>>
    /\ UNCHANGED <<cfgVars, resolverVars, threads, orchVars, histVars, dirVars,
                   clipVars, engineVars, pc, files, exc, log>>

\* The application after on_mount: constructed with a reference list, the
\* widgets composed, the queue polled every 0.1 s, nothing started.
InitTextual ==
    /\ variant = "textual"
    /\ urls \in SeqsUpTo(UiRefPool, MaxUiRefs)
    /\ use_transitions = FALSE
    /\ clip_duration = DefaultClipDuration
    /\ transition_duration = DefaultTransitionDuration
    /\ NoApp
    /\ pc = "ui"
    /\ i = 0
    /\ clip_paths = <<>>
    /\ temp_dir = "none"
    /\ files = {}
    /\ exc = "none"
    /\ video_id = None
    /\ start_time = 0
    /\ full_video_path = None
    /\ overlay = "none"
    /\ ret = "none"
    /\ plain_outcome = "none"
    /\ stitch_ret = "none"
    /\ attempted = <<>>
    /\ materialized = {}
    /\ decided = FALSE
    /\ stitch_calls = <<>>
    /\ graph_calls = <<>>
    /\ graph_outcome = "none"
    /\ copy_outcome = "none"
    /\ copy_calls = <<>>
    /\ simple_calls = <<>>
    /\ simple_outcome = "none"
    /\ list_file = <<>>
    /\ rmtree_calls = 0
    /\ font_missing = FALSE
    /\ reported_clips = 0
    /\ successful_clips = 0
    /\ steps = <<>>
    /\ normalizations = <<>>
    /\ log = {}
    /\ raw = None
    /\ resolved = [raised |-> "pending"]

NextTextual ==
    \/ start_processing
    \/ \E t \in Threads : process_videos(t)
    \/ check_message_queue

SpecTextual == InitTextual /\ [][NextTextual]_vars

\* ------------------------------------------------------------------ claims

\* The run is past the per-item loop.
PastLoop == pc \in {"stitch", "concatenate", "with_transitions", "simple", "stitch_ret",
                    "cleanup", "done"}

\* The run has returned after having created its scratch directory.
Returned == pc = "done" /\ temp_dir # "none"

\* What the resolver returns or raises for each line of the pool.
ResolvedPool == [u \in RefPool |-> parse_youtube_url(u)]

\* What the resolver returns or raises for the n-th reference of the run.
Resolved(n) == ResolvedPool[urls[n]]

\* C1: a failure of one reference at any stage does not abort the run: the
\* references are attempted exactly once each, in input order (the n-th entry
\* into the loop body is for reference n), no exception is propagating while
\* the loop runs, and a run that has left the loop has attempted every
\* reference and has reached the assembly decision.
C1_EveryReferenceAttempted ==
    /\ i <= Len(urls)
    /\ attempted = OneTo(i)
    /\ (temp_dir # "none" /\ ~PastLoop) => exc = "none"
    /\ (temp_dir # "none" /\ PastLoop) =>
           (attempted = OneTo(Len(urls)) /\ decided)

\* A run in which the first reference failed, a later one was attempted all
\* the same, and the assembly decision was reached.
C1_Witness ==
    /\ decided
    /\ Len(urls) >= 2
    /\ 1 \notin materialized
    /\ attempted = OneTo(Len(urls))
    /\ materialized # {}

\* C2: stitch_videos is invoked at most once, only once every reference has
\* been attempted and the loop has ended, and, the decision made, it has been
\* invoked if and only if at least one reference materialized successfully.
C2_StitchOnceAfterAll ==
    /\ Len(stitch_calls) <= 1
    /\ stitch_calls # <<>> => (attempted = OneTo(Len(urls)) /\ PastLoop)
    /\ decided => (stitch_calls # <<>> <=> materialized # {})
    /\ ~decided => stitch_calls = <<>>

\* stitch_videos was invoked in a run where some reference failed.
C2_Witness ==
    /\ Len(stitch_calls) = 1
    /\ Cardinality(materialized) < Len(urls)
    /\ pc = "done"

\* The segments of the references that materialized, in input order.
SuccessfulSegments ==
    LET Succeeded(n) == n \in materialized
        idx == SelectSeq(OneTo(Len(urls)), Succeeded)
    IN [k \in 1..Len(idx) |-> ClipPath(idx[k], Resolved(idx[k]).video_id)]

\* C3: the list handed to stitch_videos is exactly the subsequence of the
\* references that materialized, in their original order, without a
\* placeholder for a failed index and without a duplicate.
C3_SegmentsAreSuccessesInOrder ==
    \A k \in 1..Len(stitch_calls) :
        /\ stitch_calls[k] = SuccessfulSegments
        /\ \A a, b \in 1..Len(stitch_calls[k]) :
              a < b => stitch_calls[k][a][2] < stitch_calls[k][b][2]

\* Three references, the second fails to resolve: stitch_videos is called
\* with the segments of the first and the third, in that order.
C3_Witness ==
    /\ Len(urls) = 3
    /\ Resolved(2).raised = "ValueError"
    /\ Resolved(1).raised = "none" /\ Resolved(3).raised = "none"
    /\ stitch_calls = << << ClipPath(1, Resolved(1).video_id),
                            ClipPath(3, Resolved(3).video_id) >> >>

\* C4 as stated: after any run that created a scratch directory, the
\* directory no longer exists when the run has returned.
C4_DirGoneAfterRun == Returned => temp_dir = "removed"

\* C4 amended: after any run that created a scratch directory, the directory
\* no longer exists when the run has returned, unless shutil.rmtree itself
\* failed, and then the failure has been reported as a cleanup warning.
C4_DirGoneOrWarned ==
    Returned => \/ temp_dir = "removed" /\ files = {}
                \/ temp_dir = "exists" /\ "cleanup_warning" \in log

\* A run with no successful segment whose scratch directory was removed.
C4_Witness ==
    /\ Returned
    /\ "no_clips" \in log
    /\ temp_dir = "removed"

\* C5: once the scratch directory has been created, its removal has been
\* attempted (once) when the run has returned, whatever the exit path.
C5_RemovalAttemptedOnEveryExit == Returned => rmtree_calls = 1

\* A legacy run that ends with the exception raised by the assembly engine
\* propagating, after the removal was attempted.
C5_Witness ==
    /\ Returned
    /\ exc = "OSError"
    /\ stitch_calls # <<>>
    /\ rmtree_calls = 1

\* What stitch_videos_simple reports for an outcome of its ffmpeg run.
SimpleResult == IF simple_outcome = "ok" THEN "True"
                ELSE IF simple_outcome = "CalledProcessError" THEN "False"
                ELSE "none"

\* C6: with two or more segments in blended mode, whenever the filter-graph
\* run has failed (a non-zero exit or a failure to start), plain
\* concatenation has been run on the same segment list when the engine is
\* done, and the engine's result is that of the plain concatenation.
C6_FallbackOnAnyBlendFailure ==
    (/\ pc = "stitch_ret"
     /\ use_transitions
     /\ Len(clip_paths) >= 2
     /\ graph_outcome \in {"CalledProcessError", "OSError"})
    => (/\ simple_calls = <<clip_paths>>
        /\ stitch_ret = SimpleResult)

\* C7: with transitions enabled and at least one successful segment, the run
\* reports "Failed to create final video" only after plain concatenation has
\* been attempted and has failed.
C7_FailureOnlyAfterPlainFailed ==
    (use_transitions /\ "failed_final" \in log)
    => (simple_calls # <<>> /\ simple_outcome = "CalledProcessError")

\* C8: the filter graph is never invoked with a fade-out start time
\* (clip_duration - transition_duration) that is negative or zero.
C8_FadeOutStartPositive ==
    \A k \in 1..Len(graph_calls) : graph_calls[k].fade_out_st > 0

\* The origin assets in the scratch directory.
OriginAssets == {f \in files : f[1] = "full"}

\* C9: when process_video_clip returns after the origin asset was fetched
\* and located, the asset is no longer in the scratch directory; and when
\* the fetch of a reference starts, no origin asset is in the directory.
C9_OriginDeletedOnReturn ==
    /\ (pc = "clip_ret" /\ full_video_path # None) => full_video_path \notin files
    /\ pc = "download" => OriginAssets = {}

\* The ways process_video_with_overlay fails.
OverlayFailures == {"no_fonts_dir", "no_font_file", "copy_error",
                    "encode_failed", "encode_oserror"}

\* C10: when process_video_clip returns for a reference whose overlay step
\* failed and whose undecorated encode succeeds, it returns True and the
\* segment file exists.
C10_OverlayFailureKeepsClip ==
    (pc = "clip_ret" /\ overlay \in OverlayFailures /\ plain_outcome = "ok")
    => (ret = "True" /\ ClipPath(i, video_id) \in files)

\* C11: once a font lookup of the run has found no font, no later call
\* performs a font lookup (nor, therefore, an overlay encode): the overlay
\* step, which begins with find_font_file(), is not taken again.
C11_NoLookupAfterFontMissing ==
    [][font_missing => (overlay' = overlay \/ overlay' = "none")]_vars

\* The call of the resolver has returned or raised.
Parsed == resolved.raised # "pending"

\* The line matches a known URL shape (watch page, short link, embed, /v/):
\* somewhere in it a head of one of the shapes is followed by an id character.
MatchesShape(url) ==
    \E k \in 1..(Len(url) - 1) :
        /\ url[k] \in {"youtube.com/watch?v=", "youtu.be/",
                       "youtube.com/embed/", "youtube.com/v/"}
        /\ url[k + 1] \in IdChars

OffsetParameter(url) == parse_qs_t(urlparse_query(url))

\* C13: for every line that matches a known URL shape, the resolver returns
\* a pair and does not raise: the video id is the one captured by the first
\* pattern, in list order, that matches, and the offset is the value of the
\* t parameter, whatever the text of that value.
C13_ShapeIsResolved ==
    (Parsed /\ MatchesShape(raw))
    => (/\ resolved.raised = "none"
        /\ resolved.video_id = FirstMatch(raw)
        /\ (OffsetParameter(raw) # None /\ IsInt(OffsetParameter(raw)))
              => resolved.timestamp = int(OffsetParameter(raw)))

NoOffsetParameter(url) == \A k \in 1..Len(url) : url[k] # "t="

\* C15: for every line that matches a known URL shape, whichever shape, and
\* carries no offset parameter, the resolver returns the pair of the captured
\* video id and offset 0: the reference is valid.
C15_NoOffsetDefaultsToZero ==
    (Parsed /\ MatchesShape(raw) /\ NoOffsetParameter(raw))
    => resolved = [raised |-> "none", video_id |-> FirstMatch(raw), timestamp |-> 0]

\* An embed URL with a query that holds no t parameter has been resolved to
\* offset 0, as the other three shapes without a query are.
C15_Witness ==
    /\ Parsed
    /\ raw = <<"youtube.com/embed/", "a", "?", "a">>
    /\ resolved = [raised |-> "none", video_id |-> <<"a">>, timestamp |-> 0]
    /\ \A h \in {"youtube.com/watch?v=", "youtu.be/", "youtube.com/v/"} :
          <<h, "a">> \in RawStrings /\ NoOffsetParameter(<<h, "a">>)

\* C16: every pair the resolver returns has a non-negative offset.
C16_OffsetNonNegative ==
    (Parsed /\ resolved.raised = "none") => resolved.timestamp >= 0

\* The segments handed to the assembly engine so far and their encode settings.
AssembledSettings ==
    {normalizations[k] : k \in {n \in 1..Len(normalizations) : stitch_calls # <<>>}}

\* C17 as stated: every segment that reaches the assembly engine was written
\* in this run by a materializer call that returned True, and all of them
\* were encoded with the same settings (scale-and-pad, frame rate, encoder,
\* container), whichever encode command wrote them.
C17_SameSettingsOnEveryPath ==
    /\ Len(normalizations) = Len(clip_paths)
    /\ \A k \in 1..Len(clip_paths) : clip_paths[k][2] \in materialized
    /\ \A a, b \in AssembledSettings : a = b

\* C17 amended: every segment that reaches the assembly engine was written
\* in this run by a materializer call that returned True, whose encode
\* command scaled and padded to 1920x1080 at 30 fps into an H.264 mp4 file with
\* the audio copied; the segments of process_video_clip all come from the
\* same libx264 settings, those of stitch.py from h264_nvenc or libx264.
C17_SameFrameOnEveryPath ==
    /\ Len(normalizations) = Len(clip_paths)
    /\ \A k \in 1..Len(stitch_calls) : stitch_calls[k] = clip_paths
    /\ \A k \in 1..Len(clip_paths) :
          /\ clip_paths[k][2] \in materialized
          /\ SubSeq(normalizations[k].vf.scale, 2, 3) = <<1920, 1080>>
          /\ SubSeq(normalizations[k].vf.pad, 2, 3) = <<1920, 1080>>
          /\ normalizations[k].vf.fps = 30
          /\ normalizations[k].container = "mp4"
          /\ normalizations[k].audio = "copy"
          /\ normalizations[k].encoder \in {"libx264", "h264_nvenc"}
          /\ variant # "main" => normalizations[k] = cmd_software

\* The engine of stitch.py was handed a segment written by the accelerated
\* command and one written by the software command.
C17_Witness ==
    /\ variant = "main"
    /\ stitch_calls # <<>>
    /\ {normalizations[k].encoder : k \in 1..Len(normalizations)}
          = {"libx264", "h264_nvenc"}

\* The engine has returned or raised.
EngineDone == pc \in {"stitch_ret", "cleanup", "done"} /\ stitch_calls # <<>>

\* C18: with transitions disabled the filter graph is never built or run
\* (nor the single-clip copy of the blended mode), whatever the number of
\* segments, and once the engine is done plain concatenation has been run
\* once, on the list handed over; a clip count, when reported, is the
\* length of that list (3 for three references that all materialized). With
\* transitions enabled and two or more segments, plain concatenation has
\* only been run after the filter graph was run and exited non-zero.
C18_StrategyFollowsTransitions ==
    /\ ~use_transitions =>
          /\ graph_calls = <<>> /\ copy_outcome = "none"
          /\ pc # "with_transitions"
          /\ EngineDone => simple_calls = stitch_calls
          /\ reported_clips # 0 => reported_clips = Len(simple_calls[1])
    /\ (use_transitions /\ Len(clip_paths) >= 2 /\ simple_calls # <<>>) =>
          /\ Len(graph_calls) = 1 /\ graph_calls[1].clips = clip_paths
          /\ graph_outcome = "CalledProcessError"
          /\ simple_calls = <<clip_paths>>

\* Three references that all materialized, transitions disabled: plain
\* concatenation was run once on the three segments, no filter graph, and
\* the summary reports 3 clips.
C18_Witness ==
    /\ ~use_transitions
    /\ materialized = {1, 2, 3}
    /\ Len(simple_calls) = 1 /\ Len(simple_calls[1]) = 3
    /\ graph_calls = <<>>
    /\ reported_clips = 3
    /\ pc = "done"

\* The place of each step in a materializer call: fetch, then locating the
\* downloaded file and probing it, then the encodes (the overlay or
\* accelerated one before the undecorated or software one), then the
\* deletion of the origin asset.
StepRank ==
    [fetch |-> 1, locate |-> 2, probe |-> 3, overlay |-> 4, hw |-> 4,
     plain |-> 5, sw |-> 5, remove |-> 6]

EncodeSteps == {"overlay", "plain", "hw", "sw"}

\* C19: the steps of a materializer call run in the order fetch, locate,
\* probe, encode, delete; an encode is run only after the fetch exited 0 and
\* its output file was located; after a failed fetch or a missing downloaded
\* file no further step runs and the call returns False; and the call
\* returns True only after an encode exited 0 and the origin was deleted.
C19_StepsInOrderFailureAbsorbing ==
    /\ \A a, b \in 1..Len(steps) :
          a < b => StepRank[steps[a][1]] < StepRank[steps[b][1]]
    /\ steps # <<>> => steps[1][1] = "fetch"
    /\ \A k \in 1..Len(steps) :
          steps[k][1] \in EncodeSteps =>
             /\ steps[1] = <<"fetch", "ok">>
             /\ steps[2] = <<"locate", "ok">>
             /\ full_video_path = OriginPath(video_id)
    /\ (steps # <<>> /\ steps[1][2] # "ok") =>
          (Len(steps) = 1 /\ pc = "clip_ret" /\ ret = "False")
    /\ (Len(steps) >= 2 /\ steps[2] = <<"locate", "missing">>) =>
          (Len(steps) = 2 /\ pc = "clip_ret" /\ ret = "False")
    /\ ret = "True" =>
          /\ steps[Len(steps)] = <<"remove", "ok">>
          /\ \E k \in 1..Len(steps) :
                steps[k][1] \in EncodeSteps /\ steps[k][2] = "ok"

\* A call of process_video_clip whose fetch exited 0 but whose downloaded
\* file was not found has returned False without a further step.
C19_Witness ==
    /\ variant = "legacy"
    /\ pc = "clip_ret"
    /\ steps = << <<"fetch", "ok">>, <<"locate", "missing">> >>
    /\ ret = "False"

\* The kinds of fade a clip is given.
FadeKinds(f) == {f.fades[k].t : k \in 1..Len(f.fades)}

\* C20: in every filter graph built (two or more segments) the first
\* segment is given a fade-out only, the last a fade-in only, every interior
\* one both, the audio stream the same fades as the video stream, each fade
\* lasting transition_duration, the fade-in at 0 and the fade-out at
\* clip_duration - transition_duration; the faded streams are then
\* concatenated in segment order by concat filters with n the number of
\* segments.
C20_FadesByPosition ==
    \A c \in 1..Len(graph_calls) :
       LET n == Len(graph_calls[c].clips)
           fc == graph_calls[c].filter_complex
       IN /\ n >= 2
          /\ Len(fc) = 2 * n + 2
          /\ \A k \in 1..n :
                /\ fc[k].input = <<k - 1, "v">> /\ fc[k].label = <<"v", k - 1>>
                /\ fc[n + k].input = <<k - 1, "a">> /\ fc[n + k].label = <<"a", k - 1>>
                /\ fc[k].filter = "fade" /\ fc[n + k].filter = "afade"
                /\ fc[n + k].fades = fc[k].fades
                /\ Len(fc[k].fades) = Cardinality(FadeKinds(fc[k]))
                /\ FadeKinds(fc[k]) = IF k = 1 THEN {"out"}
                                      ELSE IF k = n THEN {"in"}
                                      ELSE {"in", "out"}
                /\ \A j \in 1..Len(fc[k].fades) :
                      /\ fc[k].fades[j].d = transition_duration
                      /\ fc[k].fades[j].st = IF fc[k].fades[j].t = "in" THEN 0
                                             ELSE clip_duration - transition_duration
          /\ fc[2 * n + 1].filter = "concat" /\ fc[2 * n + 2].filter = "concat"
          /\ fc[2 * n + 1].n = n /\ fc[2 * n + 2].n = n
          /\ fc[2 * n + 1].inputs = [k \in 1..n |-> fc[k].label]
          /\ fc[2 * n + 2].inputs = [k \in 1..n |-> fc[n + k].label]
          /\ <<fc[2 * n + 1].v, fc[2 * n + 1].a>> = <<1, 0>>
          /\ <<fc[2 * n + 2].v, fc[2 * n + 2].a>> = <<0, 1>>

\* The filter graph was built for three segments: the second is an interior
\* one, faded in and out.
C20_Witness ==
    /\ Len(graph_calls) = 1
    /\ Len(graph_calls[1].clips) = 3
    /\ FadeKinds(graph_calls[1].filter_complex[2]) = {"in", "out"}

\* C21: the label burned into a segment is the 1-based position of that
\* segment in the output: when process_video_clip returns True after the
\* overlay encode exited 0, the text of its drawtext filter is the position
\* the segment is about to take in clip_paths, also when an earlier
\* reference of the run failed.
C21_LabelIsOutputPosition ==
    \A k \in 1..Len(steps) :
        (steps[k][1] = "overlay" /\ steps[k][2] = "ok" /\ ret = "True")
        => steps[k][3].text = Len(clip_paths) + 1

\* The encode commands the materializer call has run so far, in order (an
\* overlay step that ended before its ffmpeg run is none).
EncodesRun ==
    LET IsEncode(e) ==
            /\ e[1] \in EncodeSteps
            /\ e[2] \notin {"no_fonts_dir", "no_font_file", "copy_error"}
    IN SelectSeq(steps, IsEncode)

\* C22: in every materializer, when a call that ran an encode returns, the
\* first encode run was the accelerated one (h264_nvenc), the software
\* encoder (libx264) was run after it if and only if the accelerated attempt
\* failed, and the call returns True if and only if one of the attempts
\* exited 0.
C22_AcceleratedFirstSoftwareFallback ==
    (pc = "clip_ret" /\ EncodesRun # <<>>) =>
        /\ EncodeCommand[EncodesRun[1][1]].encoder = "h264_nvenc"
        /\ (\E k \in 2..Len(EncodesRun) :
                EncodeCommand[EncodesRun[k][1]].encoder = "libx264")
              <=> EncodesRun[1][2] # "ok"
        /\ ret = "True" <=> \E k \in 1..Len(EncodesRun) : EncodesRun[k][2] = "ok"
\* C23: a failure of shutil.rmtree is non-fatal: the cleanup step in which
\* the directory stays in place ends the run without raising (an exception
\* leaves the run only if one was propagating from the try block already),
\* reports a cleanup warning and not "Cleanup complete", and changes nothing
\* of what the run had determined: the messages already reported stay, no
\* new one is added but the warning (and the Textual run's report of the
\* exception that was propagating), and the engine's result, the reported
\* clip count and the segment list are as before.
C23_CleanupFailureNonFatal ==
    [][(pc = "cleanup" /\ temp_dir' = "exists") =>
          /\ pc' = "done"
          /\ exc' \in {exc, "none"}
          /\ "cleanup_warning" \in log' /\ "cleanup_complete" \notin log'
          /\ log \subseteq log'
          /\ log' \ log \subseteq
                {"cleanup_warning"} \cup
                (IF exc # "none" THEN {"unexpected_error"} ELSE {})
          /\ stitch_ret' = stitch_ret
          /\ reported_clips' = reported_clips
          /\ clip_paths' = clip_paths]_vars

\* A run that reported its output file as created, then failed to delete
\* the scratch directory: it has returned without an exception, with both
\* the success report and the warning.
C23_Witness ==
    /\ Returned
    /\ temp_dir = "exists"
    /\ exc = "none"
    /\ {"final_success", "cleanup_warning"} \subseteq log
    /\ stitch_ret = "True"
    /\ reported_clips = Len(clip_paths)

\* C24: the clip count of the success summary is the number of segments
\* handed to the assembly engine; and throughout the run the success counter
\* of the loop (process_with_legacy_ui, main) is the length of the collected
\* segment list, which is at most the number of references attempted so far.
C24_CountsAgree ==
    /\ reported_clips # 0 =>
          (stitch_calls # <<>> /\ reported_clips = Len(stitch_calls[1]))
    /\ variant # "textual" => successful_clips = Len(clip_paths)
    /\ successful_clips <= Len(attempted)
    /\ Len(clip_paths) <= Len(attempted)

\* A legacy run of three references of which two materialized: the counter
\* stood at 2 when the loop ended and the summary reported 2 clips.
C24_Witness ==
    /\ variant = "legacy"
    /\ pc = "done"
    /\ Len(attempted) = 3
    /\ successful_clips = 2
    /\ reported_clips = 2
    /\ Len(stitch_calls[1]) = 2

\* A processing thread that has been started and has not ended.
Running(t) == threads[t].pc \notin {"unstarted", "exited"}

\* C25: every run of process_videos queues processing_complete once, after
\* its cleanup message when it created a scratch directory, and queues no
\* further message after it; a run that has ended has queued it.
C25_OneCompletionLast ==
    \A t \in Threads :
        /\ threads[t].completes <= 1
        /\ ~threads[t].stray
        /\ threads[t].pc = "exited" => threads[t].completes = 1
        /\ (threads[t].completes >= 1 /\ threads[t].temp_dir) => threads[t].cleaned

\* C26: at most one processing thread runs at any time, and the Start
\* button is enabled only when none does.
C26_OneThreadAtATime ==
    /\ Cardinality({t \in Threads : Running(t)}) <= 1
    /\ ~widgets.start_btn.disabled => \A t \in Threads : ~Running(t)

\* The run started last, or 0.
LastRun ==
    IF \A t \in Threads : threads[t].pc = "unstarted" THEN 0
    ELSE CHOOSE t \in Threads :
            /\ threads[t].pc # "unstarted"
            /\ \A u \in Threads : threads[u].pc # "unstarted" => u <= t

\* C27: once every thread has ended and the UI has handled every message,
\* the Successful count shown is the number of clips that succeeded in the
\* run started last, the Failed count shown the number that failed in it,
\* not negative, and together they are at most the total number of clips.
C27_CountsShownArePerRun ==
    (/\ LastRun # 0
     /\ \A t \in Threads : ~Running(t)
     /\ message_queue = <<>>)
    => (/\ widgets.successful_clips = threads[LastRun].clips
        /\ widgets.failed_clips = threads[LastRun].i - threads[LastRun].clips
        /\ widgets.failed_clips >= 0
        /\ widgets.successful_clips + widgets.failed_clips <= app.total_clips)

\* The line gives its offset as a fragment parameter: one "#", followed by
\* t=, and no t= before it.
IsFragmentForm(url) ==
    /\ MatchesShape(url)
    /\ Cardinality({k \in 1..Len(url) : url[k] = "#"}) = 1
    /\ \E k \in 1..(Len(url) - 1) :
          /\ url[k] = "#" /\ url[k + 1] = "t="
          /\ \A j \in 1..(k - 1) : url[j] # "t="

\* The same reference with the offset given as a query parameter: the "#"
\* replaced by "?", or by "&" when the line has a query already.
QueryForm(url) ==
    LET sep == IF \E k \in 1..Len(Expand(url)) : Expand(url)[k] = "?"
               THEN "&" ELSE "?"
    IN [k \in 1..Len(url) |-> IF url[k] = "#" THEN sep ELSE url[k]]

\* C28: for a line that gives an integer offset as a fragment parameter
\* (#t=90), the resolver returns what it returns for the query form of the
\* same reference: the same video id and the offset given.
C28_FragmentLikeQuery ==
    (/\ Parsed
     /\ IsFragmentForm(raw)
     /\ OffsetParameter(QueryForm(raw)) # None
     /\ IsInt(OffsetParameter(QueryForm(raw))))
    => (/\ resolved = parse_youtube_url(QueryForm(raw))
        /\ resolved.timestamp = int(OffsetParameter(QueryForm(raw))))

\* C29: an encode command that requests an audio codec (-c:a) is run only
\* after a probe of the origin asset has selected its audio stream and
\* succeeded, so that for a source without audio none is requested.
C29_AudioCodecOnlyAfterAudioProbe ==
    \A k \in 1..Len(steps) :
        (/\ steps[k][1] \in EncodeSteps
         /\ steps[k][2] \notin {"no_fonts_dir", "no_font_file", "copy_error"}
         /\ EncodeCommand[steps[k][1]].audio # "none")
        => \E j \in 1..(k - 1) :
              /\ steps[j] = <<"probe", "ok">>
              /\ ffprobe_args.select_streams \in {"a", "a:0"}

\* The fetch steps of the materializer call so far.
Fetches(st) == {k \in 1..Len(st) : st[k][1] = "fetch"}

\* C30: the fetch collaborator is invoked at most once per reference and
\* run: a materializer call runs it once, as its first step, the loop enters
\* its body once for each reference, and when a call returns after a failed
\* fetch the loop goes on to the next reference with the segment list
\* unchanged: the reference is skipped, not tried again.
C30_FetchOnceNoRetry ==
    [][/\ Cardinality(Fetches(steps')) <= 1
       /\ Fetches(steps') # Fetches(steps) => (steps = <<>> \/ steps' = <<>>)
       /\ attempted' = OneTo(i')
       /\ (pc = "clip_ret" /\ steps # <<>> /\ steps[1][2] # "ok") =>
             /\ ret = "False"
             /\ pc' = "loop" /\ i' = i
             /\ clip_paths' = clip_paths
             /\ materialized' = materialized]_vars

\* The fetch of the second reference exited non-zero, after the first
\* reference was collected: the call has returned False without a further
\* step.
C30_Witness ==
    /\ pc = "clip_ret"
    /\ i = 2
    /\ Len(clip_paths) = 1
    /\ steps = << <<"fetch", "CalledProcessError">> >>
    /\ ret = "False"

\* ---------------------------------------------------------------- C31

\* The steps of the current call that follow its probe.
AfterProbe(st) ==
    LET k == CHOOSE n \in 1..Len(st) : st[n][1] = "probe"
    IN SubSeq(st, k + 1, Len(st))

Probed(st) == \E n \in 1..Len(st) : st[n][1] = "probe"

\* The steps that make a call return True: an encode that exited 0 followed
\* by the removal of the origin asset, nothing else.
EncodedAndRemoved(rest) ==
    /\ rest # <<>>
    /\ rest[Len(rest)] = <<"remove", "ok">>
    /\ Len(rest) >= 2
    /\ rest[Len(rest) - 1][1] \in EncodeSteps
    /\ rest[Len(rest) - 1][2] = "ok"

\* C31: the probe is advisory. Whatever its outcome, the call goes on to the
\* encode without returning or raising, it touches no file, and the value the
\* call returns is decided by the steps after the probe alone: True exactly
\* when an encode exited 0 and the origin asset was removed, with a failed
\* probe as with a working one.
C31_ProbeAdvisory ==
    Probed(steps) =>
        /\ exc = "none"
        /\ AfterProbe(steps) = <<>> =>
              /\ pc \in {"overlay", "dvs_hw"}
              /\ ret = "none"
              /\ full_video_path \in files
        /\ pc = "clip_ret" => (ret = "True" <=> EncodedAndRemoved(AfterProbe(steps)))
        /\ pc = "clip_ret" => ret \in {"True", "False"}

C31_Witness ==
    /\ pc = "clip_ret"
    /\ ret = "True"
    /\ \E n \in 1..Len(steps) : steps[n] = <<"probe", "failed">>

\* ---------------------------------------------------------------- C32

\* The i-th of 2n arguments -i p1 -i p2 ... names the i-th path.
InputsInOrder(call) ==
    LET n == Len(call.clips)
    IN /\ Len(call.inputs) = 2 * n
       /\ \A k \in 1..n : /\ call.inputs[2 * k - 1] = "-i"
                          /\ call.inputs[2 * k] = call.clips[k]

\* The concat filter takes the labels of the per-clip filters in the order of
\* the inputs: its k-th label is the output of the filter reading input k - 1.
ConcatInOrder(call, kind, at) ==
    LET n == Len(call.clips)
        fc == call.filter_complex
        offset == IF kind = "v" THEN 0 ELSE n
    IN /\ fc[at].filter = "concat"
       /\ fc[at].n = n
       /\ Len(fc[at].inputs) = n
       /\ \A k \in 1..n : /\ fc[at].inputs[k] = fc[offset + k].label
                          /\ fc[offset + k].input = <<k - 1, kind>>

\* C32: both strategies take the segments in plan order. Once plain
\* concatenation has run, video_list.txt holds one line per segment, the i-th
\* naming the i-th path; every blended command lists the paths as its inputs
\* in order and its two concat filters take the per-input labels in that
\* order; nothing is reordered, dropped or repeated.
C32_SegmentsInPlanOrder ==
    /\ simple_calls # <<>> =>
          LET clips == simple_calls[Len(simple_calls)]
          IN /\ ListFilePath \in files
             /\ Len(list_file) = Len(clips)
             /\ \A k \in 1..Len(clips) : list_file[k] = [file |-> clips[k]]
             /\ clips = stitch_calls[Len(stitch_calls)]
    /\ simple_calls = <<>> => list_file = <<>>
    /\ \A c \in 1..Len(graph_calls) :
          LET call == graph_calls[c]
              n == Len(call.clips)
          IN /\ call.clips = stitch_calls[Len(stitch_calls)]
             /\ InputsInOrder(call)
             /\ Len(call.filter_complex) = 2 * n + 2
             /\ ConcatInOrder(call, "v", 2 * n + 1)
             /\ ConcatInOrder(call, "a", 2 * n + 2)

\* A blended command of three inputs failed and plain concatenation wrote a
\* manifest of the same three segments.
C32_Witness ==
    /\ Len(graph_calls) = 1
    /\ Len(graph_calls[1].clips) = 3
    /\ Len(list_file) = 3
    /\ pc = "stitch_ret"

\* ---------------------------------------------------------------- C33

\* Some encode of the current call exited 0.
EncodeSucceeded(st) ==
    \E j \in 1..Len(st) : st[j][1] \in EncodeSteps /\ st[j][2] = "ok"

InCall ==
    pc \in {"download", "find", "probe", "overlay", "plain", "remove",
            "dvs_download", "dvs_glob", "dvs_probe", "dvs_hw", "dvs_sw",
            "dvs_remove", "clip_ret"}

\* C33: the materializer deletes the origin asset only after an encode of
\* the reference has written its segment. os.remove is reached only behind an
\* encode that exited 0, with the segment in the scratch directory; and as
\* long as no encode of the call has succeeded (failed fetch, both encodes
\* failed) no deletion has been attempted and an origin asset that was
\* located is still there.
C33_NoDeletionBeforeEncode ==
    InCall =>
        /\ \A k \in 1..Len(steps) :
              steps[k][1] = "remove" =>
                  /\ \E j \in 1..(k - 1) :
                        steps[j][1] \in EncodeSteps /\ steps[j][2] = "ok"
                  /\ ClipPath(i, video_id) \in files
        /\ pc \in {"remove", "dvs_remove"} =>
              EncodeSucceeded(steps) /\ ClipPath(i, video_id) \in files
        /\ ~EncodeSucceeded(steps) =>
              /\ \A k \in 1..Len(steps) : steps[k][1] # "remove"
              /\ full_video_path # None => full_video_path \in files

\* Both encodes of a call failed and it returned with the origin asset
\* still in the scratch directory.
C33_Witness ==
    /\ pc = "clip_ret"
    /\ ret = "False"
    /\ Len(steps) >= 2
    /\ steps[Len(steps)][1] \in {"plain", "sw"}
    /\ steps[Len(steps)][2] # "ok"
    /\ steps[Len(steps) - 1][1] \in {"overlay", "hw"}
    /\ full_video_path \in files

\* ---------------------------------------------------------------- C34

\* C34: the two resolvers implement one policy. Whichever of them was called
\* with a line, the other one, given the same line, rejects it too (with the
\* same ValueError) or returns the same (video id, offset) pair; for a line
\* of a known shape without offset parameter both return offset 0.
C34_ResolversAgree ==
    Parsed =>
        /\ resolved = parse_youtube_url(raw)
        /\ resolved = stitch_parse_youtube_url(raw)
        /\ (MatchesShape(raw) /\ NoOffsetParameter(raw)) =>
              /\ stitch_parse_youtube_url(raw).raised = "none"
              /\ stitch_parse_youtube_url(raw).timestamp = 0
              /\ parse_youtube_url(raw).timestamp = 0

\* The resolver of stitch.py has returned offset 0 for a short link without
\* offset parameter.
C34_Witness ==
    /\ variant = "main"
    /\ Parsed
    /\ raw = <<"youtu.be/", "a">>
    /\ resolved = [raised |-> "none", video_id |-> <<"a">>, timestamp |-> 0]

\* ---------------------------------------------------------------- C35

\* C35: called in blended mode with exactly one segment, the engine builds
\* no filter graph and writes no manifest: it runs one stream copy
\* (-c copy) of that segment to the output path, and it returns True exactly
\* when that copy exited 0.
C35_SingleSegmentIsCopied ==
    (use_transitions /\ Len(clip_paths) = 1 /\ pc = "stitch_ret") =>
        /\ graph_calls = <<>>
        /\ simple_calls = <<>>
        /\ list_file = <<>>
        /\ ListFilePath \notin files
        /\ Len(copy_calls) = 1
        /\ copy_calls[1].i = clip_paths[1]
        /\ copy_calls[1].c = "copy"
        /\ copy_calls[1].output = "output_path"
        /\ copy_outcome \in RunOutcomes
        /\ stitch_ret = "True" <=> copy_outcome = "ok"
        /\ copy_outcome = "CalledProcessError" => stitch_ret = "False"

\* The copy of the one segment exited non-zero and the engine returned False.
C35_Witness ==
    /\ use_transitions
    /\ Len(clip_paths) = 1
    /\ pc = "stitch_ret"
    /\ Len(copy_calls) = 1
    /\ copy_outcome = "CalledProcessError"
    /\ stitch_ret = "False"

\* ---------------------------------------------------------------- C36

\* The engine has returned from a call with an empty segment list.
ReturnedFromEmpty ==
    /\ pc = "stitch_ret"
    /\ stitch_calls # <<>>
    /\ stitch_calls[Len(stitch_calls)] = <<>>

\* C36: an engine call with an empty segment list returns False in either
\* mode, with no manifest written and no external process run (no copy, no
\* filter graph, no concatenation); and every call the orchestrator makes,
\* after its loop, passes a list that is not empty.
C36_EmptyListRejectedAndNeverPassed ==
    /\ ReturnedFromEmpty =>
          /\ stitch_ret = "False"
          /\ exc = "none"
          /\ ListFilePath \notin files
          /\ list_file = <<>>
          /\ copy_calls = <<>> /\ copy_outcome = "none"
          /\ graph_calls = <<>> /\ graph_outcome = "none"
          /\ simple_calls = <<>> /\ simple_outcome = "none"
    /\ decided => \A k \in 1..Len(stitch_calls) : stitch_calls[k] # <<>>
    /\ (decided /\ clip_paths = <<>>) =>
          /\ stitch_calls = <<>>
          /\ pc \notin {"stitch", "with_transitions", "simple", "concatenate",
                        "stitch_ret"}

\* Plain concatenation was called with an empty list and returned False.
C36_Witness ==
    /\ ReturnedFromEmpty
    /\ ~use_transitions
    /\ stitch_ret = "False"

====
